---- MODULE Spec2Model ----
(***************************************************************************)
(* Bounded multi-round tool orchestration (backend/ai_generator.py) and    *)
(* the tool registry with its two tools (backend/search_tools.py).         *)
(*                                                                         *)
(* Python values are represented as follows.                               *)
(*   - a string built with f-strings or concatenation is the sequence of   *)
(*     its pieces (each piece a TLA+ string); numbers are rendered with    *)
(*     ToString as str() does;                                             *)
(*   - None for a string-valued field is the string "None"; an optional    *)
(*     integer is <<>> (None) or <<n>>;                                    *)
(*   - a dict that keeps insertion order (ToolManager.tools) is the        *)
(*     sequence of its keys, every tool instance being named by its key.   *)
(***************************************************************************)
EXTENDS Integers, Sequences, FiniteSets, TLC

\* ------------------------------------------------------------------ bounds
\* Largest max_rounds a caller passes (0 is accepted by the code as well).
MaxRounds == 2
\* Largest number of passages one backend search returns.
MaxDocs == 2
\* Largest number of lessons in the metadata record of a course.
MaxLessons == 3
\* Largest number of register_tool calls made on one ToolManager.
MaxRegistrations == 3

\* --------------------------------------------------------------- constants
None == "None"
SEARCH == "search_course_content"
OUTLINE == "get_course_outline"
ToolNames == {SEARCH, OUTLINE}

Query == "q"
Lessons == {0, 1}

\* ----------------------------------------------------- strings and options
Str(s) == <<s>>
IsNoneInt(x) == x = <<>>
\* Python truthiness of an Optional[int]: None and 0 are false.
TruthyInt(x) == x # <<>> /\ x[1] # 0
\* Python truthiness of an Optional[str]: None and "" are false.
TruthyStr(x) == x # None /\ x # ""

\* "\n\n".join(parts) / "\n".join(parts)
RECURSIVE Join(_, _)
Join(sep, parts) ==
    IF parts = <<>> THEN <<>>
    ELSE IF Len(parts) = 1 THEN parts[1]
    ELSE parts[1] \o <<sep>> \o Join(sep, Tail(parts))

\* ------------------------------------------------------------ content blocks
\* A response content block.  A text block has a text attribute and nothing
\* else; a tool_use block has id, name and input and no text attribute.
TextBlock(t) ==
    [type |-> "text", text |-> t, id |-> <<>>, name |-> None,
     input |-> [query |-> None, course_name |-> None, lesson_number |-> <<>>]]
ToolUseBlock(i, n, kw) ==
    [type |-> "tool_use", text |-> <<>>, id |-> i, name |-> n, input |-> kw]

\* Keyword arguments the model supplies (block.input); an absent key is None.
KwQuery == [query |-> "q", course_name |-> None, lesson_number |-> <<>>]
KwCourse == [query |-> None, course_name |-> "A", lesson_number |-> <<>>]
\* The tool calls the model makes: a search and an outline request whose
\* keywords bind, and a search request whose keywords do not (no query).
RunToolCalls == {<<SEARCH, KwQuery>>, <<OUTLINE, KwCourse>>, <<SEARCH, KwCourse>>}

\* ------------------------------------------------------------ search tool
\* SourceWithLink(text, url)
SourceWithLink(text, url) == [text |-> text, url |-> url]

\* CourseSearchTool.execute(**kwargs) binds only if query is given.
SearchBinds(kw) == kw.query # None
\* CourseOutlineTool.execute(**kwargs) binds only if course_name is the one key.
OutlineBinds(kw) ==
    kw.course_name # None /\ kw.query = None /\ kw.lesson_number = <<>>

\* A source text that takes lesson 0 for no lesson.
PassageLabelTruthy(meta) ==
    LET course_title == IF meta.course_title = None THEN "unknown"
                        ELSE meta.course_title
    IN  IF TruthyInt(meta.lesson_number)
        THEN <<course_title, " - Lesson ", ToString(meta.lesson_number[1])>>
        ELSE <<course_title>>

\* source_text of one passage (lines 105-107)
PassageLabel(meta) ==
    LET course_title == IF meta.course_title = None THEN "unknown"
                        ELSE meta.course_title
    IN  IF ~IsNoneInt(meta.lesson_number)
        THEN <<course_title, " - Lesson ", ToString(meta.lesson_number[1])>>
        ELSE <<course_title>>

\* header of one passage (lines 98-102)
PassageHeader(meta) ==
    LET course_title == IF meta.course_title = None THEN "unknown"
                        ELSE meta.course_title
    IN  <<"[", course_title>>
        \o (IF ~IsNoneInt(meta.lesson_number)
            THEN <<" - Lesson ", ToString(meta.lesson_number[1])>> ELSE <<>>)
        \o <<"]">>

\* _format_results: the text returned and the sources stored.
RECURSIVE FormatParts(_)
FormatParts(docs) ==
    IF docs = <<>> THEN <<>>
    ELSE <<(PassageHeader(docs[1]) \o <<"\n", docs[1].doc>>)>>
         \o FormatParts(Tail(docs))

\* the calls of store.get_lesson_link made for the passages, in order: the
\* course title and the lesson number of each (lines 110-112)
RECURSIVE LinkLookups(_)
LinkLookups(docs) ==
    IF docs = <<>> THEN <<>>
    ELSE (IF ~IsNoneInt(docs[1].lesson_number)
          THEN <<[course_title |-> docs[1].course_title,
                  lesson_num |-> docs[1].lesson_number[1]]>>
          ELSE <<>>)
         \o LinkLookups(Tail(docs))

RECURSIVE FormatSources(_, _)
FormatSources(docs, links) ==
    IF docs = <<>> THEN <<>>
    ELSE LET meta == docs[1]
             lesson_link == IF ~IsNoneInt(meta.lesson_number)
                            THEN links[meta.lesson_number[1]]
                            ELSE None
         IN  <<SourceWithLink(PassageLabel(meta), lesson_link)>>
             \o FormatSources(Tail(docs), links)

FormatResults(res) ==
    [text |-> Join("\n\n", FormatParts(res.docs)),
     sources |-> FormatSources(res.docs, res.links),
     lookups |-> LinkLookups(res.docs)]

\* the "No relevant content found" message of lines 79-84
NoContentMessage(kw) ==
    LET f1 == IF TruthyStr(kw.course_name)
              THEN <<" in course '", kw.course_name, "'">> ELSE <<>>
        f2 == IF TruthyInt(kw.lesson_number)
              THEN <<" in lesson ", ToString(kw.lesson_number[1])>>
              ELSE <<>>
    IN  <<"No relevant content found">> \o f1 \o f2 \o <<".">>

\* An execute that looks at is_empty() before it looks at the error.
SearchExecuteEmptyFirst(kw, res, old) ==
    IF res.docs = <<>>
    THEN [text |-> NoContentMessage(kw), sources |-> old, formatted |-> 0]
    ELSE IF res.error # None
    THEN [text |-> Str(res.error), sources |-> old, formatted |-> 0]
    ELSE [text |-> FormatResults(res).text,
          sources |-> FormatResults(res).sources,
          formatted |-> Len(res.docs)]

\* An execute that reports every error of the backend with one message.
SearchExecuteHidesError(kw, res, old) ==
    IF res.error # None
    THEN [text |-> <<"Search failed">>, sources |-> old, formatted |-> 0]
    ELSE IF res.docs = <<>>
    THEN [text |-> NoContentMessage(kw), sources |-> old, formatted |-> 0]
    ELSE [text |-> FormatResults(res).text,
          sources |-> FormatResults(res).sources,
          formatted |-> Len(res.docs)]

\* An execute that adds the new sources to the ones it holds.
SearchExecuteExtending(kw, res, old) ==
    IF res.error # None
    THEN [text |-> Str(res.error), sources |-> old, formatted |-> 0]
    ELSE IF res.docs = <<>>
    THEN [text |-> NoContentMessage(kw), sources |-> old, formatted |-> 0]
    ELSE [text |-> FormatResults(res).text,
          sources |-> old \o FormatResults(res).sources,
          formatted |-> Len(res.docs)]

\* An execute that empties last_sources when it formats nothing.
SearchExecuteClearing(kw, res, old) ==
    IF res.error # None
    THEN [text |-> Str(res.error), sources |-> <<>>, formatted |-> 0]
    ELSE IF res.docs = <<>>
    THEN [text |-> NoContentMessage(kw), sources |-> <<>>, formatted |-> 0]
    ELSE [text |-> FormatResults(res).text,
          sources |-> FormatResults(res).sources,
          formatted |-> Len(res.docs)]

\* CourseSearchTool.execute: what it returns and what it leaves in
\* last_sources, given the backend's reply res and the old last_sources.
SearchExecute(kw, res, old) ==
    IF res.error # None
    THEN [text |-> Str(res.error), sources |-> old, formatted |-> 0]
    ELSE IF res.docs = <<>>
    THEN [text |-> NoContentMessage(kw), sources |-> old, formatted |-> 0]
    ELSE [text |-> FormatResults(res).text,
          sources |-> FormatResults(res).sources,
          formatted |-> Len(res.docs)]

\* ------------------------------------------------------------ outline tool
\* sorted(lessons, key=lesson_number): stable insertion sort.
RECURSIVE InsertLesson(_, _)
InsertLesson(l, sorted) ==
    IF sorted = <<>> THEN <<l>>
    ELSE IF l.lesson_number < sorted[1].lesson_number
    THEN <<l>> \o sorted
    ELSE <<sorted[1]>> \o InsertLesson(l, Tail(sorted))

\* A rendering that keeps the lessons in the order of the record.
KeepLessonOrder(lessons) == lessons

RECURSIVE SortLessons(_)
SortLessons(lessons) ==
    IF lessons = <<>> THEN <<>>
    ELSE InsertLesson(lessons[Len(lessons)],
                      SortLessons(SubSeq(lessons, 1, Len(lessons) - 1)))

RECURSIVE LessonLines(_)
LessonLines(lessons) ==
    IF lessons = <<>> THEN <<>>
    ELSE <<(<<ToString(lessons[1].lesson_number), ". ", lessons[1].lesson_title>>)>>
         \o LessonLines(Tail(lessons))

FormatCourseOutline(course) ==
    LET head == IF TruthyStr(course.course_link)
                THEN << <<"**", course.title, "**">>,
                        <<"Course Link: ", course.course_link>> >>
                ELSE << <<"**", course.title, "**">> >>
        inst == IF TruthyStr(course.instructor)
                THEN << <<"Instructor: ", course.instructor>> >> ELSE <<>>
        less == IF course.lessons # <<>>
                THEN << <<"\n**Lessons (", ToString(Len(course.lessons)),
                          " total):**">> >>
                     \o LessonLines(SortLessons(course.lessons))
                ELSE << <<"\n**Lessons:** No lessons available">> >>
    IN  [text |-> Join("\n", head \o inst \o less),
         sources |-> <<SourceWithLink(<<course.title>>, course.course_link)>>]

\* A lookup that takes the first course of the metadata list.
FirstCourse(all, title) == IF all = <<>> THEN <<>> ELSE <<all[1]>>

\* first course of the metadata list whose title is the resolved title
RECURSIVE FindCourse(_, _)
FindCourse(all, title) ==
    IF all = <<>> THEN <<>>
    ELSE IF all[1].title = title THEN <<all[1]>>
    ELSE FindCourse(Tail(all), title)

\* An execute that adds the source of the outline to the ones it holds.
OutlineExecuteExtending(kw, cat, old) ==
    IF ~TruthyStr(cat.resolved)
    THEN [text |-> <<"No course found matching '", kw.course_name, "'">>,
          sources |-> old, formatted |-> 0, reads |-> 0]
    ELSE LET course_metadata == FindCourse(cat.metadata, cat.resolved)
         IN  IF course_metadata = <<>>
             THEN [text |-> <<"Course metadata not found for '", cat.resolved, "'">>,
                   sources |-> old, formatted |-> 0, reads |-> 1]
             ELSE [text |-> FormatCourseOutline(course_metadata[1]).text,
                   sources |-> old \o FormatCourseOutline(course_metadata[1]).sources,
                   formatted |-> 1, reads |-> 1]

\* CourseOutlineTool.execute, given the catalog's replies cat.
\* reads: the calls of get_all_courses_metadata.
OutlineExecute(kw, cat, old) ==
    IF ~TruthyStr(cat.resolved)
    THEN [text |-> <<"No course found matching '", kw.course_name, "'">>,
          sources |-> old, formatted |-> 0, reads |-> 0]
    ELSE LET course_metadata == FindCourse(cat.metadata, cat.resolved)
         IN  IF course_metadata = <<>>
             THEN [text |-> <<"Course metadata not found for '", cat.resolved, "'">>,
                   sources |-> old, formatted |-> 0, reads |-> 1]
             ELSE [text |-> FormatCourseOutline(course_metadata[1]).text,
                   sources |-> FormatCourseOutline(course_metadata[1]).sources,
                   formatted |-> 1, reads |-> 1]

\* ------------------------------------------------- replies of the backend
\* What the vector store answers to one tool execution: search() gives an
\* error or ranked passages, get_lesson_link() a link per lesson number,
\* _resolve_course_name() a title or None, get_all_courses_metadata() a list.
PassageWithLesson == [doc |-> "d1", course_title |-> "A", lesson_number |-> <<1>>]
PassageNoLesson == [doc |-> "d2", course_title |-> "A", lesson_number |-> <<>>]
\* The ranking of the passages for the query: the search returns a prefix.
Ranked(i) == IF i % 2 = 1 THEN PassageWithLesson ELSE PassageNoLesson
RunLinks == [n \in Lessons |-> IF n = 1 THEN "https://l1" ELSE None]
CourseA ==
    [title |-> "A", course_link |-> "https://a", instructor |-> None,
     lessons |-> << [lesson_number |-> 1, lesson_title |-> "L1"],
                    [lesson_number |-> 0, lesson_title |-> "L0"] >>]
NoCatalog == [resolved |-> None, metadata |-> <<>>]
NoSearch == [error |-> None, docs |-> <<>>, links |-> RunLinks]

RunSearchReplies ==
    {[error |-> "Search error", docs |-> <<>>, links |-> RunLinks]}
    \cup {[error |-> None, docs |-> [i \in 1..k |-> Ranked(i)],
            links |-> RunLinks] : k \in 0..MaxDocs}
RunCatalogReplies ==
    {NoCatalog, [resolved |-> "A", metadata |-> <<>>],
     [resolved |-> "A", metadata |-> <<CourseA>>]}

\* ------------------------------------------------------------ the program
VARIABLES
    tools,          \* ToolManager.tools: registered names, in insertion order
    last_sources,   \* last_sources of each tool instance
    got,            \* value returned by the latest get_last_sources call
    pc,             \* "idle", the place a run has reached, "done" (a run of
                    \* generate_response_with_sequential_tools has ended)
                    \* or "generated" (generate_response has ended)
    max_rounds, tool_manager, toolset,   \* arguments of the run
    conversation_history,                \* argument of the run (None: absent)
    round_number,   \* loop variable of the round loop
    messages,       \* the message history of the run
    response,       \* the response of the latest model call
    blockIdx,       \* position of the dispatch loop in response.content
    tool_results,   \* results collected by the dispatch loop
    outcome,        \* "none", "returned", or the error the run raised
    result,         \* the text returned
    exitAt,         \* the statement that ended the run
    callLog,        \* the model calls of the run, in order, each with the
                    \* message history it was given
    execLog,        \* the tool executions of the run, in order (calls: the
                    \* number of model calls made before the execution)
    qphase,         \* progress of reset_sources -> run -> get_last_sources
                    \* ("cleared": a reset that found provenance to clear)
    lastWriter,     \* the tool that assigned last_sources most recently
    lastFormatted,  \* items formatted by the latest execution that returned
                    \* since the reset (<<>>: none)
    toolCall        \* the latest execute called on a tool instance directly:
                    \* its arguments, the calls it made to the store, the
                    \* limit and the replies of the store, its result
                    \* (lookups: its calls of get_lesson_link)
VARIABLES
    instances,      \* ToolManager.tools: the tool instance under each key
    regLog,         \* the tool instances register_tool has stored so far,
                    \* in call order, when the registry is exercised on its
                    \* own
    definitions,    \* value returned by the latest get_tool_definitions call
    regOutcome      \* the latest register_tool call of the registry exercised
                    \* on its own: the tool given and whether the call raised

vars == <<tools, last_sources, got, pc, max_rounds, tool_manager, toolset,
          conversation_history,
          round_number, messages, response, blockIdx, tool_results, outcome,
          result, exitAt, callLog, execLog, qphase, lastWriter, lastFormatted,
          toolCall, instances, regLog, definitions, regOutcome>>

registryVars == <<tools, last_sources, lastWriter, lastFormatted>>
managerVars == <<instances, regLog, definitions, regOutcome>>
runVars == <<max_rounds, tool_manager, toolset, conversation_history,
             round_number, messages,
             response, blockIdx, tool_results, outcome, result, exitAt,
             callLog, execLog>>

NoResponse == [stop_reason |-> None, content |-> <<>>]
NoToolCall ==
    [tool |-> None, kw |-> [query |-> None, course_name |-> None,
                            lesson_number |-> <<>>],
     resolved |-> None, reply |-> NoSearch, metadata |-> <<>>, before |-> 0,
     text |-> <<>>, searches |-> 0, reads |-> 0, passed |-> <<>>, limit |-> 0,
     lookups |-> <<>>]
NoGot == [valid |-> FALSE, list |-> <<>>]
NoDefinitions == [valid |-> FALSE, list |-> <<>>]
NoRegistration == [tool |-> None, raised |-> FALSE]

\* The tool instances: two CourseSearchTool objects and two CourseOutlineTool
\* objects; tool.get_tool_definition().get("name") of each.
ToolInstances == {"search1", "search2", "outline1", "outline2"}
\* Tool objects whose definition has no "name" key (.get gives None) or has
\* the empty string as its name.
NamelessTools == {"noname", "emptyname"}
NameOf(tool) ==
    IF tool \in {"search1", "search2"} THEN SEARCH
    ELSE IF tool \in {"outline1", "outline2"} THEN OUTLINE
    ELSE IF tool = "emptyname" THEN ""
    ELSE None
\* the instance a run works with under a name
InstanceOf(name) == IF name = SEARCH THEN "search1" ELSE "outline1"
Registered(name) == \E i \in 1..Len(tools) : tools[i] = name

\* ------------------------------------------------------------ ToolManager
\* register_tool: self.tools[tool_name] = tool (a dict keeps the position
\* of a key that is assigned again).
RegisterTool(name) ==
    /\ pc = "idle"
    /\ tools' = IF Registered(name) THEN tools ELSE Append(tools, name)
    /\ instances' = [instances EXCEPT ![name] = InstanceOf(name)]
    /\ got' = NoGot
    /\ qphase' = "none"
    /\ UNCHANGED <<last_sources, lastWriter, lastFormatted, pc>>
    /\ UNCHANGED runVars
    /\ UNCHANGED <<toolCall, regLog, definitions, regOutcome>>

\* get_last_sources: the last_sources of the first tool, in dict order,
\* whose last_sources is not empty.
RECURSIVE FirstNonEmpty(_, _)
FirstNonEmpty(names, ls) ==
    IF names = <<>> THEN <<>>
    ELSE IF ls[names[1]] # <<>> THEN ls[names[1]]
    ELSE FirstNonEmpty(Tail(names), ls)

GetLastSourcesValue == FirstNonEmpty(tools, last_sources)

GetLastSources ==
    /\ pc = "idle"
    /\ got' = [valid |-> TRUE, list |-> GetLastSourcesValue]
    /\ qphase' = IF qphase = "ran" THEN "got" ELSE "none"
    /\ UNCHANGED <<tools, last_sources, lastWriter, lastFormatted, pc>>
    /\ UNCHANGED runVars
    /\ UNCHANGED <<toolCall, managerVars>>

\* the registered tools hold some provenance (what a reset has to clear)
SomeProvenance == \E t \in ToolNames : Registered(t) /\ last_sources[t] # <<>>

\* A reset that clears the search tool only.
ResetSourcesSearchOnly ==
    /\ pc = "idle"
    /\ last_sources' = [t \in ToolNames |->
                           IF Registered(t) /\ t = SEARCH THEN <<>>
                           ELSE last_sources[t]]
    /\ got' = NoGot
    /\ qphase' = IF SomeProvenance THEN "cleared" ELSE "reset"
    /\ lastWriter' = None
    /\ lastFormatted' = <<>>
    /\ UNCHANGED <<tools, pc>>
    /\ UNCHANGED runVars
    /\ UNCHANGED <<toolCall, managerVars>>

\* reset_sources: tool.last_sources = [] for every registered tool.
ResetSources ==
    /\ pc = "idle"
    /\ last_sources' = [t \in ToolNames |->
                           IF Registered(t) THEN <<>> ELSE last_sources[t]]
    /\ got' = NoGot
    /\ qphase' = IF SomeProvenance THEN "cleared" ELSE "reset"
    /\ lastWriter' = None
    /\ lastFormatted' = <<>>
    /\ UNCHANGED <<tools, pc>>
    /\ UNCHANGED runVars
    /\ UNCHANGED <<toolCall, managerVars>>

\* An execute_tool that looks the name up with self.tools[tool_name] at
\* once: a name that is not registered raises KeyError.
ExecuteToolOnRaising(ls, name, kw, env) ==
    IF ~Registered(name)
    THEN [raised |-> TRUE, text |-> <<"KeyError">>,
          sources |-> ls, ran |-> FALSE, formatted |-> 0]
    ELSE IF name = SEARCH
    THEN IF ~SearchBinds(kw)
         THEN [raised |-> TRUE, text |-> <<"TypeError">>,
               sources |-> ls, ran |-> TRUE, formatted |-> 0]
         ELSE LET o == SearchExecute(kw, env.search, ls[SEARCH])
              IN  [raised |-> FALSE, text |-> o.text,
                   sources |-> [ls EXCEPT ![SEARCH] = o.sources],
                   ran |-> TRUE, formatted |-> o.formatted]
    ELSE IF ~OutlineBinds(kw)
         THEN [raised |-> TRUE, text |-> <<"TypeError">>,
               sources |-> ls, ran |-> TRUE, formatted |-> 0]
         ELSE LET o == OutlineExecute(kw, env.catalog, ls[OUTLINE])
              IN  [raised |-> FALSE, text |-> o.text,
                   sources |-> [ls EXCEPT ![OUTLINE] = o.sources],
                   ran |-> TRUE, formatted |-> o.formatted]

\* execute_tool(tool_name, **kwargs) with the backend's replies env.
\* raised: the call raised (TypeError of a call whose keywords do not bind).
\* ls: the last_sources of the tool instances when the call is made.
ExecuteToolOn(ls, name, kw, env) ==
    IF ~Registered(name)
    THEN [raised |-> FALSE, text |-> <<"Tool '", name, "' not found">>,
          sources |-> ls, ran |-> FALSE, formatted |-> 0]
    ELSE IF name = SEARCH
    THEN IF ~SearchBinds(kw)
         THEN [raised |-> TRUE, text |-> <<"TypeError">>,
               sources |-> ls, ran |-> TRUE, formatted |-> 0]
         ELSE LET o == SearchExecute(kw, env.search, ls[SEARCH])
              IN  [raised |-> FALSE, text |-> o.text,
                   sources |-> [ls EXCEPT ![SEARCH] = o.sources],
                   ran |-> TRUE, formatted |-> o.formatted]
    ELSE IF ~OutlineBinds(kw)
         THEN [raised |-> TRUE, text |-> <<"TypeError">>,
               sources |-> ls, ran |-> TRUE, formatted |-> 0]
         ELSE LET o == OutlineExecute(kw, env.catalog, ls[OUTLINE])
              IN  [raised |-> FALSE, text |-> o.text,
                   sources |-> [ls EXCEPT ![OUTLINE] = o.sources],
                   ran |-> TRUE, formatted |-> o.formatted]

ExecuteTool(name, kw, env) == ExecuteToolOn(last_sources, name, kw, env)

\* The replies the backend can give to the execution of one tool-use block.
ExecEnvs(name, kw) ==
    IF Registered(name) /\ name = SEARCH /\ SearchBinds(kw)
    THEN {[search |-> r, catalog |-> NoCatalog] : r \in RunSearchReplies}
    ELSE IF Registered(name) /\ name = OUTLINE /\ OutlineBinds(kw)
    THEN {[search |-> NoSearch, catalog |-> c] : c \in RunCatalogReplies}
    ELSE {[search |-> NoSearch, catalog |-> NoCatalog]}

\* The replies to the executions of all the blocks of one content: one reply
\* for each tool_use block.
EnvsAt(content, i) ==
    IF content[i].type = "tool_use"
    THEN ExecEnvs(content[i].name, content[i].input)
    ELSE {[search |-> NoSearch, catalog |-> NoCatalog]}
RECURSIVE EnvChoicesFrom(_, _)
EnvChoicesFrom(content, i) ==
    IF i > Len(content) THEN {<<>>}
    ELSE {<<e>> \o rest : e \in EnvsAt(content, i),
                          rest \in EnvChoicesFrom(content, i + 1)}
EnvChoices(content) == EnvChoicesFrom(content, 1)

\* --------------------------------------------------------- model responses
\* What the model endpoint can answer to call number c: a stop condition and
\* an ordered content of text and tool-use blocks; the i-th block of call c
\* carries the correlation id <<c, i>>.  The code never looks into a text, so
\* the text of the i-th block of call c is named by its place, <<c, i>>: the
\* texts of different blocks are different.  A content has one or two
\* blocks; two tool-use blocks of one content request two different calls.
ToolUses(c, i) ==
    {ToolUseBlock(<<c, i>>, call[1], call[2]) : call \in RunToolCalls}
TextOf(c, i) == TextBlock(<<c, i>>)

EndTurnResponses(c) ==
    {[stop_reason |-> "end_turn", content |-> <<TextOf(c, 1)>>]}
ToolUseContents(c) ==
    {<<TextOf(c, 1)>>}
    \cup {<<u>> : u \in ToolUses(c, 1)}
    \cup {<<TextOf(c, 1), u>> : u \in ToolUses(c, 2)}
    \cup {<<u, TextOf(c, 2)>> : u \in ToolUses(c, 1)}
    \cup {k \in {<<u, v>> : u \in ToolUses(c, 1), v \in ToolUses(c, 2)} :
              <<k[1].name, k[1].input>> # <<k[2].name, k[2].input>>}
ToolUseResponses(c) ==
    {[stop_reason |-> "tool_use", content |-> k] : k \in ToolUseContents(c)}
Responses(c) == EndTurnResponses(c) \cup ToolUseResponses(c)

\* ------------------------------------------------------------ AIGenerator
\* A decision that stops only after max_rounds has been passed.
ShouldContinueRoundsLate(resp, round, maxr) ==
    IF round > maxr THEN FALSE
    ELSE IF resp.stop_reason = "tool_use" THEN TRUE
    ELSE FALSE

\* _should_continue_rounds
ShouldContinueRounds(resp, round, maxr) ==
    IF round >= maxr THEN FALSE
    ELSE IF resp.stop_reason = "tool_use" THEN TRUE
    ELSE FALSE

\* for round_number in range(1, max_rounds + 1): the next value of the loop
\* variable, and whether the loop body runs for it.
StuckRoundNumber(round) == round
NextRoundNumber(round) == round + 1
InRoundRange(round, maxr) == 1 <= round /\ round < maxr + 1

\* How a run ends: the run is "done", its outcome handed to the caller.
EndRun(how, val, at) ==
    /\ pc' = "done"
    /\ outcome' = how
    /\ result' = val
    /\ exitAt' = at
    /\ qphase' = IF qphase = "running" THEN "ran" ELSE "none"

\* A return that hands no text to the caller.
ReturnNoText(resp, at) == EndRun("returned", <<>>, at)

\* return response.content[0].text: only a text block has a text attribute;
\* reading it from a tool-use block raises AttributeError.
ReturnFirstText(resp, at) ==
    IF resp.content[1].type = "text"
    THEN EndRun("returned", resp.content[1].text, at)
    ELSE EndRun("AttributeError", <<>>, at)

\* tool_results.append({"type": "tool_result", "tool_use_id": ..., "content":
\* ...}): the results of a round in the order of their tool-use blocks.
PrependToolResult(results, block, text) ==
    <<[type |-> "tool_result", tool_use_id |-> block.id, content |-> text]>>
    \o results
AppendToolResult(results, block, text) ==
    Append(results,
           [type |-> "tool_result", tool_use_id |-> block.id, content |-> text])

\* A history that is not given the assistant turn.
NoAssistantTurn(msgs, resp) == msgs

\* messages.append({"role": "assistant", "content": response.content})
AssistantTurn(msgs, resp) ==
    Append(msgs, [role |-> "assistant", content |-> resp.content])

\* A history that is given one user turn for each result of the round.
WithToolResultsOneEach(msgs, results) ==
    msgs \o [i \in 1..Len(results) |->
                [role |-> "user", content |-> <<results[i]>>]]

\* messages.append({"role": "user", "content": tool_results}): one user turn
\* for all the results of the round.
WithToolResults(msgs, results) ==
    Append(msgs, [role |-> "user", content |-> results])

\* The static SYSTEM_PROMPT (lines 9-48), one piece.
SYSTEM_PROMPT == "SYSTEM_PROMPT"
\* the conversation histories a caller passes: none, or a summary
Histories == {None, "User: ... Assistant: ..."}

\* A system content that leaves the history out.
SystemContentNoHistory(history) == <<SYSTEM_PROMPT>>

\* system_content: the SYSTEM_PROMPT, followed by the block "Previous
\* conversation" if a history is given (lines 78-82 and 129-133).
SystemContent(history) ==
    IF TruthyStr(history)
    THEN <<SYSTEM_PROMPT, "\n\nPrevious conversation:\n", history>>
    ELSE <<SYSTEM_PROMPT>>
system_content == SystemContent(conversation_history)

\* A prompt that takes a round for the final one only past max_rounds.
BuildRoundAwareSystemPromptNoFinal(base_system, round, maxr) ==
    base_system
    \o <<"\n\n--- TOOL USAGE CONTEXT ---\n",
         "Current Round: ", ToString(round), " of ", ToString(maxr), "\n">>
    \o (IF round = 1
        THEN <<"This is your ", "first opportunity",
               " to use tools for this query.\n">>
             \o (IF maxr > 1
                 THEN <<"You can make additional tool calls in ", "Round ",
                        ToString(round + 1), " if needed.\n">>
                 ELSE <<>>)
        ELSE IF round > maxr
        THEN <<"This is your ", "final round",
               " - make any remaining tool calls needed.\n",
               "After this round, provide your ", "complete final answer",
               ".\n">>
        ELSE <<"You can make additional tool calls in the next round if needed.\n">>)
    \o <<"--- END CONTEXT ---\n">>

\* _build_round_aware_system_prompt: the pieces of the f-strings, the
\* literals cut so that their phrases are pieces.
BuildRoundAwareSystemPrompt(base_system, round, maxr) ==
    base_system
    \o <<"\n\n--- TOOL USAGE CONTEXT ---\n",
         "Current Round: ", ToString(round), " of ", ToString(maxr), "\n">>
    \o (IF round = 1
        THEN <<"This is your ", "first opportunity",
               " to use tools for this query.\n">>
             \o (IF maxr > 1
                 THEN <<"You can make additional tool calls in ", "Round ",
                        ToString(round + 1), " if needed.\n">>
                 ELSE <<>>)
        ELSE IF round = maxr
        THEN <<"This is your ", "final round",
               " - make any remaining tool calls needed.\n",
               "After this round, provide your ", "complete final answer",
               ".\n">>
        ELSE <<"You can make additional tool calls in the next round if needed.\n">>)
    \o <<"--- END CONTEXT ---\n">>

\* the system prompt of the model call of the current round (lines 197-199)
RoundAwareSystem ==
    BuildRoundAwareSystemPrompt(system_content, round_number, max_rounds)

\* generate_response_with_sequential_tools, up to the round loop.
StartRun(maxr, tm, ts, history) ==
    /\ pc = "idle"
    /\ max_rounds' = maxr
    /\ tool_manager' = tm
    /\ toolset' = ts
    /\ conversation_history' = history
    /\ messages' = <<[role |-> "user", content |-> Query]>>
    /\ round_number' = 1
    /\ pc' = IF InRoundRange(1, maxr) THEN "round" ELSE "final"
    /\ response' = NoResponse
    /\ blockIdx' = 0
    /\ tool_results' = <<>>
    /\ outcome' = "none"
    /\ result' = <<>>
    /\ exitAt' = None
    /\ callLog' = <<>>
    /\ execLog' = <<>>
    /\ got' = NoGot
    /\ qphase' = IF qphase \in {"reset", "cleared"} THEN "running" ELSE "none"
    /\ UNCHANGED registryVars
    /\ UNCHANGED <<toolCall, managerVars>>

\* One round: _execute_tool_round (the model call), _should_continue_rounds,
\* the return of line 152 or the assistant turn of line 155, and the guard
\* of _execute_tools_for_round (no tool manager: None, so line 163 returns).
RoundModelCall ==
    /\ pc = "round"
    /\ \E resp \in Responses(Len(callLog) + 1) :
        /\ response' = resp
        /\ callLog' = Append(callLog, [round |-> round_number, tools |-> toolset,
                                       stop |-> resp.stop_reason,
                                       messages |-> messages,
                                       system |-> RoundAwareSystem])
        /\ IF ~ShouldContinueRounds(resp, round_number, max_rounds)
           THEN /\ ReturnFirstText(resp, "line152")
                /\ UNCHANGED <<messages, blockIdx, tool_results>>
           ELSE /\ messages' = AssistantTurn(messages, resp)
                /\ tool_results' = <<>>
                /\ IF ~tool_manager
                   THEN /\ ReturnFirstText(resp, "line163")
                        /\ blockIdx' = 0
                   ELSE /\ pc' = "dispatch"
                        /\ blockIdx' = 1
                        /\ UNCHANGED <<outcome, result, exitAt, qphase>>
    /\ UNCHANGED <<max_rounds, tool_manager, toolset,
                   conversation_history, round_number, execLog, got>>
    /\ UNCHANGED registryVars
    /\ UNCHANGED <<toolCall, managerVars>>

\* A round that catches the error of its model call and returns a message.
RoundModelCallFailsCaught ==
    /\ pc = "round"
    /\ callLog' = Append(callLog, [round |-> round_number, tools |-> toolset,
                                   stop |-> None, messages |-> messages,
                                   system |-> RoundAwareSystem])
    /\ EndRun("returned", <<"error">>, "line214")
    /\ UNCHANGED <<max_rounds, tool_manager, toolset,
                   conversation_history, round_number, messages,
                   response, blockIdx, tool_results, execLog, got>>
    /\ UNCHANGED registryVars
    /\ UNCHANGED <<toolCall, managerVars>>

\* The model call of a round raises (endpoint unreachable, unauthenticated):
\* nothing catches it.
RoundModelCallFails ==
    /\ pc = "round"
    /\ callLog' = Append(callLog, [round |-> round_number, tools |-> toolset,
                                   stop |-> None, messages |-> messages,
                                   system |-> RoundAwareSystem])
    /\ EndRun("APIError", <<>>, "line214")
    /\ UNCHANGED <<max_rounds, tool_manager, toolset,
                   conversation_history, round_number, messages,
                   response, blockIdx, tool_results, execLog, got>>
    /\ UNCHANGED registryVars
    /\ UNCHANGED <<toolCall, managerVars>>

\* A dispatch that takes a name that is not registered for a failure.
DispatchToolUseUnknownFails ==
    /\ pc = "dispatch"
    /\ blockIdx <= Len(response.content)
    /\ response.content[blockIdx].type = "tool_use"
    /\ LET block == response.content[blockIdx] IN
       \E env \in ExecEnvs(block.name, block.input) :
        LET o == ExecuteTool(block.name, block.input, env) IN
        /\ execLog' = Append(execLog,
               [round |-> round_number, id |-> block.id, name |-> block.name,
                ran |-> o.ran, raised |-> o.raised, calls |-> Len(callLog)])
        /\ last_sources' = o.sources
        /\ lastWriter' = IF o.formatted > 0 THEN block.name ELSE lastWriter
        /\ lastFormatted' = IF o.ran /\ ~o.raised THEN <<o.formatted>>
                          ELSE lastFormatted
        /\ IF o.raised \/ ~o.ran
           THEN /\ ReturnFirstText(response, "line163")
                /\ UNCHANGED <<blockIdx, tool_results>>
           ELSE /\ tool_results' = AppendToolResult(tool_results, block, o.text)
                /\ blockIdx' = blockIdx + 1
                /\ UNCHANGED <<pc, outcome, result, exitAt, qphase>>
    /\ UNCHANGED <<tools, got, max_rounds, tool_manager, toolset,
                   conversation_history, round_number,
                   messages, response, callLog>>
    /\ UNCHANGED <<toolCall, managerVars>>

\* _execute_tools_for_round, one tool_use block: execute_tool and the result
\* appended, or the except branch (None, so line 163 returns).
DispatchToolUse ==
    /\ pc = "dispatch"
    /\ blockIdx <= Len(response.content)
    /\ response.content[blockIdx].type = "tool_use"
    /\ LET block == response.content[blockIdx] IN
       \E env \in ExecEnvs(block.name, block.input) :
        LET o == ExecuteTool(block.name, block.input, env) IN
        /\ execLog' = Append(execLog,
               [round |-> round_number, id |-> block.id, name |-> block.name,
                ran |-> o.ran, raised |-> o.raised, calls |-> Len(callLog)])
        /\ last_sources' = o.sources
        /\ lastWriter' = IF o.formatted > 0 THEN block.name ELSE lastWriter
        /\ lastFormatted' = IF o.ran /\ ~o.raised THEN <<o.formatted>>
                          ELSE lastFormatted
        /\ IF o.raised
           THEN /\ ReturnFirstText(response, "line163")
                /\ UNCHANGED <<blockIdx, tool_results>>
           ELSE /\ tool_results' = AppendToolResult(tool_results, block, o.text)
                /\ blockIdx' = blockIdx + 1
                /\ UNCHANGED <<pc, outcome, result, exitAt, qphase>>
    /\ UNCHANGED <<tools, got, max_rounds, tool_manager, toolset,
                   conversation_history, round_number,
                   messages, response, callLog>>
    /\ UNCHANGED <<toolCall, managerVars>>

\* A dispatch loop that does not move past a block that is no tool_use block.
DispatchSkipStuck ==
    /\ pc = "dispatch"
    /\ blockIdx <= Len(response.content)
    /\ response.content[blockIdx].type # "tool_use"
    /\ UNCHANGED vars

\* _execute_tools_for_round, a block that is not a tool_use block.
DispatchSkip ==
    /\ pc = "dispatch"
    /\ blockIdx <= Len(response.content)
    /\ response.content[blockIdx].type # "tool_use"
    /\ blockIdx' = blockIdx + 1
    /\ UNCHANGED <<tools, last_sources, got, pc, max_rounds, tool_manager,
                   toolset,
                   conversation_history, round_number, messages, response, tool_results,
                   outcome, result, exitAt, callLog, execLog, qphase,
                   lastWriter, lastFormatted>>
    /\ UNCHANGED <<toolCall, managerVars>>

\* End of the dispatch loop: lines 274 and 159-163, then the next iteration
\* of the round loop or, the loop exhausted, the final call.
RoundEnd ==
    /\ pc = "dispatch"
    /\ blockIdx > Len(response.content)
    /\ IF tool_results # <<>>
       THEN /\ messages' = WithToolResults(messages, tool_results)
            /\ round_number' = NextRoundNumber(round_number)
            /\ pc' = IF InRoundRange(NextRoundNumber(round_number), max_rounds)
                     THEN "round" ELSE "final"
            /\ UNCHANGED <<outcome, result, exitAt, qphase>>
       ELSE /\ ReturnFirstText(response, "line163")
            /\ UNCHANGED <<messages, round_number>>
    /\ UNCHANGED <<tools, last_sources, got, max_rounds, tool_manager, toolset, conversation_history,
                   response, blockIdx, tool_results, callLog, execLog,
                   lastWriter, lastFormatted>>
    /\ UNCHANGED <<toolCall, managerVars>>

\* Lines 165-170: the call without tools after the loop.
FinalCall ==
    /\ pc = "final"
    /\ \E resp \in Responses(Len(callLog) + 1) :
        /\ response' = resp
        /\ callLog' = Append(callLog, [round |-> 0, tools |-> FALSE,
                                       stop |-> resp.stop_reason,
                                       messages |-> messages,
                                       system |-> system_content])
        /\ ReturnFirstText(resp, "line170")
    /\ UNCHANGED <<max_rounds, tool_manager, toolset,
                   conversation_history, round_number, messages,
                   blockIdx, tool_results, execLog, got>>
    /\ UNCHANGED registryVars
    /\ UNCHANGED <<toolCall, managerVars>>

FinalCallFails ==
    /\ pc = "final"
    /\ callLog' = Append(callLog, [round |-> 0, tools |-> FALSE, stop |-> None,
                                   messages |-> messages,
                                   system |-> system_content])
    /\ EndRun("APIError", <<>>, "line166")
    /\ UNCHANGED <<max_rounds, tool_manager, toolset,
                   conversation_history, round_number, messages,
                   response, blockIdx, tool_results, execLog, got>>
    /\ UNCHANGED registryVars
    /\ UNCHANGED <<toolCall, managerVars>>

\* ------------------------------------------------- generate_response
\* A dispatch that catches the error of a tool and hands it on as the
\* result of the block.
RECURSIVE HandleToolBlocksCatching(_, _, _, _)
HandleToolBlocksCatching(content, envs, i, st) ==
    IF i > Len(content) THEN st
    ELSE IF content[i].type # "tool_use"
    THEN HandleToolBlocksCatching(content, envs, i + 1, st)
    ELSE LET block == content[i]
             o == ExecuteToolOn(st.sources, block.name, block.input, envs[i])
             entry == [round |-> 0, id |-> block.id, name |-> block.name,
                       ran |-> o.ran, raised |-> o.raised, calls |-> 1]
         IN  HandleToolBlocksCatching(content, envs, i + 1,
                 [sources |-> o.sources,
                  results |-> AppendToolResult(st.results, block, o.text),
                  log |-> Append(st.log, entry),
                  writer |-> IF o.formatted > 0 THEN block.name ELSE st.writer,
                  formatted |-> IF o.ran /\ ~o.raised THEN <<o.formatted>>
                                ELSE st.formatted,
                  raised |-> FALSE])

\* _handle_tool_execution, lines 341-353: the blocks of the response from
\* the i-th on, executed in order with the replies envs; nothing catches a
\* tool that raises.  st: the last_sources, the results and the executions
\* so far.
RECURSIVE HandleToolBlocks(_, _, _, _)
HandleToolBlocks(content, envs, i, st) ==
    IF i > Len(content) \/ st.raised THEN st
    ELSE IF content[i].type # "tool_use"
    THEN HandleToolBlocks(content, envs, i + 1, st)
    ELSE LET block == content[i]
             o == ExecuteToolOn(st.sources, block.name, block.input, envs[i])
             entry == [round |-> 0, id |-> block.id, name |-> block.name,
                       ran |-> o.ran, raised |-> o.raised, calls |-> 1]
         IN  HandleToolBlocks(content, envs, i + 1,
                 [sources |-> o.sources,
                  results |-> IF o.raised THEN st.results
                              ELSE AppendToolResult(st.results, block, o.text),
                  log |-> Append(st.log, entry),
                  writer |-> IF o.formatted > 0 THEN block.name ELSE st.writer,
                  formatted |-> IF o.ran /\ ~o.raised THEN <<o.formatted>>
                                ELSE st.formatted,
                  raised |-> o.raised])

\* response.content[0].text: the value, or the AttributeError of a block
\* that has no text attribute.
FirstText(resp) ==
    IF resp.content[1].type = "text"
    THEN [how |-> "returned", val |-> resp.content[1].text]
    ELSE [how |-> "AttributeError", val |-> <<>>]

\* How generate_response ends: its outcome handed to the caller.
EndGenerate(tm, ts, calls, resp, msgs, st, end, at) ==
    /\ pc' = "generated"
    /\ max_rounds' = 0
    /\ tool_manager' = tm
    /\ toolset' = ts
    /\ round_number' = 0
    /\ messages' = msgs
    /\ response' = resp
    /\ blockIdx' = 0
    /\ tool_results' = st.results
    /\ outcome' = end.how
    /\ result' = end.val
    /\ exitAt' = at
    /\ callLog' = calls
    /\ execLog' = st.log
    /\ got' = NoGot
    /\ qphase' = "none"
    /\ last_sources' = st.sources
    /\ lastWriter' = st.writer
    /\ lastFormatted' = st.formatted
    /\ UNCHANGED tools
    /\ UNCHANGED <<toolCall, managerVars>>

\* generate_response: the model call of line 97 and, unless the response
\* requests a tool and a tool manager is given, the return of line 104;
\* otherwise _handle_tool_execution: the tools executed, the results added
\* as one user turn if there are any, the call without tools of line 367
\* and the return of line 368.
GenerateResponse(tm, ts, history) ==
    /\ pc = "idle"
    /\ conversation_history' = history
    /\ LET first == <<[role |-> "user", content |-> Query]>>
           st0 == [sources |-> last_sources, results |-> <<>>, log |-> <<>>,
                   writer |-> lastWriter, formatted |-> lastFormatted,
                   raised |-> FALSE]
           call1(resp) == [round |-> 0, tools |-> ts,
                           stop |-> resp.stop_reason, messages |-> first,
                           system |-> SystemContent(history)]
       IN
       \E resp \in Responses(1) :
          IF ~(resp.stop_reason = "tool_use" /\ tm)
          THEN EndGenerate(tm, ts, <<call1(resp)>>, resp, first, st0,
                           FirstText(resp), "line104")
          ELSE \E st \in {HandleToolBlocks(resp.content, envs, 1, st0) :
                              envs \in EnvChoices(resp.content)} :
               LET turn == AssistantTurn(first, resp)
                   msgs == IF st.results # <<>>
                           THEN WithToolResults(turn, st.results) ELSE turn
                   call2(stop) == [round |-> 0, tools |-> FALSE,
                                   stop |-> stop, messages |-> msgs,
                                   system |-> SystemContent(history)]
               IN  IF st.raised
                   THEN EndGenerate(tm, ts, <<call1(resp)>>, resp, turn, st,
                            [how |-> "TypeError", val |-> <<>>], "line343")
                   ELSE \/ \E fin \in Responses(2) :
                             EndGenerate(tm, ts,
                                 <<call1(resp), call2(fin.stop_reason)>>,
                                 fin, msgs, st, FirstText(fin), "line368")
                        \/ EndGenerate(tm, ts, <<call1(resp), call2(None)>>,
                                 resp, msgs, st,
                                 [how |-> "APIError", val |-> <<>>], "line367")

\* The model call of generate_response raises: nothing catches it.
GenerateResponseFails(tm, ts, history) ==
    /\ pc = "idle"
    /\ conversation_history' = history
    /\ LET first == <<[role |-> "user", content |-> Query]>>
           st0 == [sources |-> last_sources, results |-> <<>>, log |-> <<>>,
                   writer |-> lastWriter, formatted |-> lastFormatted,
                   raised |-> FALSE]
       IN  EndGenerate(tm, ts,
               <<[round |-> 0, tools |-> ts, stop |-> None,
                  messages |-> first, system |-> SystemContent(history)]>>,
               NoResponse, first, st0,
               [how |-> "APIError", val |-> <<>>], "line97")

\* The caller has the outcome; the locals of the run are gone.
ReturnToCaller ==
    /\ pc \in {"done", "generated"}
    /\ pc' = "idle"
    /\ max_rounds' = 0
    /\ tool_manager' = FALSE
    /\ toolset' = FALSE
    /\ conversation_history' = None
    /\ round_number' = 0
    /\ messages' = <<>>
    /\ response' = NoResponse
    /\ blockIdx' = 0
    /\ tool_results' = <<>>
    /\ outcome' = "none"
    /\ result' = <<>>
    /\ exitAt' = None
    /\ callLog' = <<>>
    /\ execLog' = <<>>
    /\ UNCHANGED <<got, qphase>>
    /\ UNCHANGED registryVars
    /\ UNCHANGED <<toolCall, managerVars>>

\* ----------------------------------------------------------- specification
Init ==
    /\ tools = <<>>
    /\ last_sources = [t \in ToolNames |-> <<>>]
    /\ got = NoGot
    /\ pc = "idle"
    /\ max_rounds = 0
    /\ tool_manager = FALSE
    /\ toolset = FALSE
    /\ conversation_history = None
    /\ round_number = 0
    /\ messages = <<>>
    /\ response = NoResponse
    /\ blockIdx = 0
    /\ tool_results = <<>>
    /\ outcome = "none"
    /\ result = <<>>
    /\ exitAt = None
    /\ callLog = <<>>
    /\ execLog = <<>>
    /\ qphase = "none"
    /\ lastWriter = None
    /\ lastFormatted = <<>>
    /\ toolCall = NoToolCall
    /\ instances = [t \in ToolNames |-> None]
    /\ regLog = <<>>
    /\ definitions = NoDefinitions
    /\ regOutcome = NoRegistration

RunStep ==
    \/ RoundModelCall
    \/ RoundModelCallFails
    \/ DispatchToolUse
    \/ DispatchSkip
    \/ RoundEnd
    \/ FinalCall
    \/ FinalCallFails
    \/ ReturnToCaller

Next ==
    \/ \E name \in ToolNames : RegisterTool(name)
    \/ GetLastSources
    \/ ResetSources
    \/ \E maxr \in 0..MaxRounds, tm \in BOOLEAN, ts \in BOOLEAN :
           StartRun(maxr, tm, ts, None)
    \/ \E tm \in BOOLEAN, ts \in BOOLEAN : GenerateResponse(tm, ts, None)
    \/ \E tm \in BOOLEAN, ts \in BOOLEAN : GenerateResponseFails(tm, ts, None)
    \/ RunStep

Spec == Init /\ [][Next]_vars

\* Every model call and every tool call returns or raises: a run that has a
\* step to take takes it.
FairSpec == Spec /\ WF_vars(RunStep)

\* ------------------------------------------------ runs with a history
\* The two entry points called with and without a conversation history, on
\* a ToolManager that has no tool registered.
HistoryNext ==
    \/ \E maxr \in 0..MaxRounds, tm \in BOOLEAN, ts \in BOOLEAN,
          history \in Histories : StartRun(maxr, tm, ts, history)
    \/ \E tm \in BOOLEAN, ts \in BOOLEAN, history \in Histories :
          GenerateResponse(tm, ts, history)
    \/ \E tm \in BOOLEAN, ts \in BOOLEAN, history \in Histories :
          GenerateResponseFails(tm, ts, history)
    \/ RunStep

HistorySpec == Init /\ [][HistoryNext]_vars

\* ------------------------------------------------ runs that dispatch tools
\* The two entry points called with the tools offered to the model, on a
\* ToolManager with none, one or both tools registered; the provenance is
\* neither read nor reset between the runs.
DispatchNext ==
    \/ \E name \in ToolNames : RegisterTool(name)
    \/ \E maxr \in 0..MaxRounds, tm \in BOOLEAN :
          StartRun(maxr, tm, TRUE, None)
    \/ \E tm \in BOOLEAN : GenerateResponse(tm, TRUE, None)
    \/ RunStep

DispatchSpec == Init /\ [][DispatchNext]_vars

\* --------------------------------------------------- the tools on their own
\* The two tools executed directly, as the callers of their execute methods
\* and the unit tests do, with every argument and every reply of the store.
PassageLessonZero == [doc |-> "d0", course_title |-> "B", lesson_number |-> <<0>>]
Passages == {PassageWithLesson, PassageLessonZero, PassageNoLesson}
CourseB ==
    [title |-> "B", course_link |-> None, instructor |-> "I", lessons |-> <<>>]

\* the arguments of CourseSearchTool.execute and CourseOutlineTool.execute
CourseNames == {"A", "X"}
ToolSearchKwargs ==
    {[query |-> Query, course_name |-> c, lesson_number |-> l] :
        c \in CourseNames \cup {None}, l \in {<<>>} \cup {<<n>> : n \in Lessons}}
ToolOutlineKwargs ==
    {[query |-> None, course_name |-> c, lesson_number |-> <<>>] :
        c \in CourseNames}

\* the replies of the index to a query: an error or ranked passages, each
\* passage of the index at most once in a ranking
Rankings ==
    {d \in UNION {[1..k -> Passages] : k \in 0..MaxDocs} :
        \A i, j \in 1..Len(d) : i # j => d[i] # d[j]}
IndexReplies ==
    {[error |-> "Search error", docs |-> <<>>, links |-> RunLinks]}
    \cup {[error |-> None, docs |-> d, links |-> RunLinks] : d \in Rankings}
\* the replies of the catalog: the title a name resolves to and the metadata
ResolveReplies == {None, "A"}
MetadataReplies == UNION {[1..k -> {CourseA, CourseB}] : k \in 0..2}

\* VectorStore.search: a course name that is given is resolved first; a name
\* that resolves to nothing ends the search with the error "No course found
\* matching '<name>'" and the index is not queried; otherwise the index is
\* queried once.  searches: the queries issued against the index.
NoCourseFound(course_name) ==
    IF course_name = "X" THEN "No course found matching 'X'"
    ELSE "No course found matching 'A'"
VectorStoreSearch(kw, resolved, index) ==
    IF TruthyStr(kw.course_name) /\ ~TruthyStr(resolved)
    THEN [result |-> [error |-> NoCourseFound(kw.course_name), docs |-> <<>>,
                      links |-> RunLinks],
          searches |-> 0]
    ELSE [result |-> index, searches |-> 1]

\* The result-count limit the store is configured with (max_results): the
\* index returns at most that many passages, none for a limit of 0.
ResultLimits == {0, MaxDocs}
IndexQuery(limit, index) ==
    IF index.error # None THEN index
    ELSE [index EXCEPT !.docs = SubSeq(index.docs, 1,
                                   IF limit < Len(index.docs) THEN limit
                                   ELSE Len(index.docs))]

\* What the store does for one search: the title the name resolves to (None
\* also when no name is given) and the result of VectorStore.search.
StoreSearches(kw) ==
    IF ~TruthyStr(kw.course_name)
    THEN {[resolved |-> None, limit |-> limit,
           vs |-> VectorStoreSearch(kw, None, IndexQuery(limit, index))] :
             limit \in ResultLimits, index \in IndexReplies}
    ELSE {[resolved |-> None, limit |-> limit,
           vs |-> VectorStoreSearch(kw, None, NoSearch)] :
             limit \in ResultLimits}
         \cup {[resolved |-> r, limit |-> limit,
                vs |-> VectorStoreSearch(kw, r, IndexQuery(limit, index))] :
                  r \in ResolveReplies \ {None}, limit \in ResultLimits,
                  index \in IndexReplies}

\* Arguments that leave out a filter that is falsy.
SearchArgumentsTruthy(kw) ==
    [query |-> kw.query,
     course_name |-> IF TruthyStr(kw.course_name) THEN kw.course_name ELSE None,
     lesson_number |-> IF TruthyInt(kw.lesson_number) THEN kw.lesson_number
                       ELSE <<>>]

\* self.store.search(query=query, course_name=course_name,
\* lesson_number=lesson_number): the arguments of the backend search.
SearchArguments(kw) ==
    [query |-> kw.query, course_name |-> kw.course_name,
     lesson_number |-> kw.lesson_number]

\* CourseSearchTool.execute called on the tool.  passed: the arguments of
\* the calls of store.search it made.
SearchToolExecute ==
    /\ pc = "idle"
    /\ \E kw \in ToolSearchKwargs :
       \E store \in StoreSearches(SearchArguments(kw)) :
       \E o \in {SearchExecute(kw, store.vs.result, last_sources[SEARCH])} :
            /\ last_sources' = [last_sources EXCEPT ![SEARCH] = o.sources]
            /\ toolCall' = [tool |-> SEARCH, kw |-> kw,
                            resolved |-> store.resolved,
                            reply |-> store.vs.result, metadata |-> <<>>,
                            before |-> Len(last_sources[SEARCH]),
                            text |-> o.text, searches |-> store.vs.searches,
                            reads |-> 0, passed |-> <<SearchArguments(kw)>>,
                            limit |-> store.limit,
                            lookups |-> IF o.formatted > 0
                                        THEN FormatResults(store.vs.result).lookups
                                        ELSE <<>>]
    /\ UNCHANGED <<tools, got, pc, qphase, lastWriter, lastFormatted>>
    /\ UNCHANGED runVars
    /\ UNCHANGED managerVars

\* CourseOutlineTool.execute called on the tool, its argument and the
\* replies of the catalog drawn from the given sets.
OutlineToolExecuteWith(kwargs, resolves, metadatas) ==
    /\ pc = "idle"
    /\ \E kw \in kwargs, resolved \in resolves, metadata \in metadatas :
        \E o \in {OutlineExecute(kw, [resolved |-> resolved,
                                       metadata |-> metadata],
                                  last_sources[OUTLINE])} :
            /\ last_sources' = [last_sources EXCEPT ![OUTLINE] = o.sources]
            /\ toolCall' = [tool |-> OUTLINE, kw |-> kw, resolved |-> resolved,
                            reply |-> NoSearch, metadata |-> metadata,
                            before |-> Len(last_sources[OUTLINE]),
                            text |-> o.text, searches |-> 0,
                            reads |-> o.reads, passed |-> <<>>, limit |-> 0,
                            lookups |-> <<>>]
    /\ UNCHANGED <<tools, got, pc, qphase, lastWriter, lastFormatted>>
    /\ UNCHANGED runVars
    /\ UNCHANGED managerVars

OutlineToolExecute ==
    OutlineToolExecuteWith(ToolOutlineKwargs, ResolveReplies, MetadataReplies)

ToolNext == SearchToolExecute \/ OutlineToolExecute

ToolSpec == Init /\ [][ToolNext]_vars

\* ------------------------------------------------ the outline of any course
\* The outline tool executed on catalogs whose one record has its lessons in
\* any order: every sequence of different lesson numbers 0..MaxLessons-1.
LessonTitle(n) == "L" \o ToString(n)
LessonOrders ==
    {ls \in UNION {[1..k -> 0..(MaxLessons - 1)] : k \in 0..MaxLessons} :
        \A i, j \in 1..Len(ls) : i # j => ls[i] # ls[j]}
LessonsIn(order) ==
    [i \in 1..Len(order) |->
        [lesson_number |-> order[i], lesson_title |-> LessonTitle(order[i])]]
\* course A has a link and no instructor, course B an instructor and no link
OutlineCourses ==
    {[title |-> "A", course_link |-> "https://a", instructor |-> None,
      lessons |-> LessonsIn(order)] : order \in LessonOrders}
    \cup {[title |-> "B", course_link |-> None, instructor |-> "I",
           lessons |-> LessonsIn(order)] : order \in LessonOrders}
OutlineResolveReplies == {None, "A", "B"}
OutlineMetadataReplies == {<<>>} \cup {<<c>> : c \in OutlineCourses}

OutlineOfAnyCourse ==
    OutlineToolExecuteWith(ToolOutlineKwargs, OutlineResolveReplies,
                           OutlineMetadataReplies)

OutlineSpec == Init /\ [][OutlineOfAnyCourse]_vars

\* ------------------------------------------------- the registry on its own
\* The ToolManager given tool instances one after the other, two of them
\* with the name of the search tool, two with the name of the outline tool
\* and two without a name, and asked for its definitions.

\* A registration that keeps the tool a name already has.
RegisterToolInstanceKeepsFirst(tool) ==
    /\ pc = "idle"
    /\ Len(regLog) < MaxRegistrations
    /\ LET tool_name == NameOf(tool) IN
       IF ~TruthyStr(tool_name)
       THEN /\ regOutcome' = [tool |-> tool, raised |-> TRUE]
            /\ UNCHANGED <<tools, instances, regLog>>
       ELSE /\ tools' = IF Registered(tool_name) THEN tools
                        ELSE Append(tools, tool_name)
            /\ instances' = IF Registered(tool_name) THEN instances
                            ELSE [instances EXCEPT ![tool_name] = tool]
            /\ regLog' = Append(regLog, tool)
            /\ regOutcome' = [tool |-> tool, raised |-> FALSE]
    /\ definitions' = NoDefinitions
    /\ got' = NoGot
    /\ qphase' = "none"
    /\ UNCHANGED <<last_sources, lastWriter, lastFormatted, pc, toolCall>>
    /\ UNCHANGED runVars

\* A registration that does not look at the name: a tool without name is
\* stored under the key it gives.
RegisterToolInstanceUnchecked(tool) ==
    /\ pc = "idle"
    /\ Len(regLog) < MaxRegistrations
    /\ LET tool_name == NameOf(tool) IN
       /\ tools' = IF Registered(tool_name) THEN tools
                   ELSE Append(tools, tool_name)
       /\ instances' = IF tool_name \in ToolNames
                       THEN [instances EXCEPT ![tool_name] = tool]
                       ELSE instances
    /\ regLog' = Append(regLog, tool)
    /\ regOutcome' = [tool |-> tool, raised |-> FALSE]
    /\ definitions' = NoDefinitions
    /\ got' = NoGot
    /\ qphase' = "none"
    /\ UNCHANGED <<last_sources, lastWriter, lastFormatted, pc, toolCall>>
    /\ UNCHANGED runVars

\* register_tool(tool): a tool whose definition gives no name raises
\* ValueError before the assignment; otherwise self.tools[tool_name] = tool.
RegisterToolInstance(tool) ==
    /\ pc = "idle"
    /\ Len(regLog) < MaxRegistrations
    /\ LET tool_name == NameOf(tool) IN
       IF ~TruthyStr(tool_name)
       THEN /\ regOutcome' = [tool |-> tool, raised |-> TRUE]
            /\ UNCHANGED <<tools, instances, regLog>>
       ELSE /\ tools' = IF Registered(tool_name) THEN tools
                        ELSE Append(tools, tool_name)
            /\ instances' = [instances EXCEPT ![tool_name] = tool]
            /\ regLog' = Append(regLog, tool)
            /\ regOutcome' = [tool |-> tool, raised |-> FALSE]
    /\ definitions' = NoDefinitions
    /\ got' = NoGot
    /\ qphase' = "none"
    /\ UNCHANGED <<last_sources, lastWriter, lastFormatted, pc, toolCall>>
    /\ UNCHANGED runVars

\* get_tool_definitions: [tool.get_tool_definition() for tool in
\* self.tools.values()], a definition being known by its name.
GetToolDefinitions ==
    /\ pc = "idle"
    /\ definitions' =
          [valid |-> TRUE,
           list |-> [i \in 1..Len(tools) |-> [name |-> NameOf(instances[tools[i]])]]]
    /\ UNCHANGED <<tools, last_sources, lastWriter, lastFormatted, got, pc,
                   qphase, toolCall, instances, regLog, regOutcome>>
    /\ UNCHANGED runVars

RegistryNext ==
    \/ \E tool \in ToolInstances \cup NamelessTools : RegisterToolInstance(tool)
    \/ GetToolDefinitions

RegistrySpec == Init /\ [][RegistryNext]_vars

\* ------------------------------------------------------------------ claims
Done == pc = "done"
NumCalls == Len(callLog)
\* every model call of the run so far was answered with a tool request
AllToolRequests == \A i \in 1..Len(callLog) : callLog[i].stop = "tool_use"
\* the model requested a tool in every round 1..max_rounds
ToolRequestInEveryRound ==
    /\ Len(callLog) >= max_rounds
    /\ \A r \in 1..max_rounds :
           callLog[r].round = r /\ callLog[r].stop = "tool_use"
\* the run ended through the failure branch of the dispatch (line 163)
DispatchFailed == exitAt = "line163"
ApiFailed == outcome = "APIError"
LastExecRaised == execLog # <<>> /\ execLog[Len(execLog)].raised

TextIndices(content) == {i \in 1..Len(content) : content[i].type = "text"}
TextsIn(content) == {content[i].text : i \in TextIndices(content)}
LastTextIn(content) ==
    content[CHOOSE i \in TextIndices(content) :
                \A j \in TextIndices(content) : j <= i].text

\* C1: for every max_rounds R >= 1 and every sequence of model responses, a
\* run of generate_response_with_sequential_tools issues at most R + 1 model
\* calls.
C1_AtMostRPlusOneCalls ==
    max_rounds >= 1 => NumCalls <= max_rounds + 1

\* a run with the largest max_rounds in which every call was answered with a
\* tool request has ended
C1_Witness ==
    Done /\ max_rounds = MaxRounds /\ AllToolRequests /\ NumCalls = max_rounds

\* C2: a run always terminates, also when the model answers every call with
\* a tool request, provided every model call and tool call returns.
C2_RunTerminates ==
    (pc \in {"round", "dispatch", "final"}) ~> Done

\* a run of two rounds or more, its tools executed, every call answered with
\* a tool request, has reached its end
C2_Witness ==
    /\ Done /\ max_rounds >= 2 /\ tool_manager
    /\ AllToolRequests /\ execLog # <<>> /\ NumCalls >= 2

\* C3: if the model requests a tool in every round 1..max_rounds, exactly one
\* more model call is issued, without tools, and its text is returned
\* (max_rounds + 1 calls: 3 for max_rounds = 2).
C3_ForcedFinal ==
    (Done /\ max_rounds >= 1 /\ ToolRequestInEveryRound /\ ~ApiFailed
          /\ ~DispatchFailed)
    => /\ NumCalls = max_rounds + 1
       /\ ~callLog[NumCalls].tools
       /\ outcome = "returned"
       /\ result \in TextsIn(response.content)

\* C4: with max_rounds = 2, when the model requests a tool in round 1 and in
\* round 2, the tools of both rounds are executed, in round order, before
\* the answer is returned.
C4_BothRoundsExecuted ==
    (Done /\ max_rounds = 2 /\ NumCalls >= 2 /\ ~ApiFailed
          /\ callLog[1].stop = "tool_use" /\ callLog[2].stop = "tool_use")
    => /\ \E i \in 1..Len(execLog) : execLog[i].round = 1
       /\ \E i \in 1..Len(execLog) : execLog[i].round = 2
       /\ \A i, j \in 1..Len(execLog) :
              i < j => execLog[i].round <= execLog[j].round

\* C5: a run that ends without a dispatch failure returns the text of a
\* terminal response: one that does not request a tool, or the response of a
\* call made without tools; never the content of a response that still
\* requests a tool.
C5_TerminalAnswer ==
    (Done /\ ~DispatchFailed /\ ~ApiFailed)
    => /\ outcome = "returned"
       /\ \/ response.stop_reason # "tool_use"
          \/ ~callLog[NumCalls].tools

\* C6: after the model call of round r the run goes on to the dispatch iff
\* the response requests a tool and r < max_rounds; otherwise it returns the
\* text of that response at once, with no further model call and no tool
\* execution (a direct answer: 1 model call, 0 tool executions).
C6_ContinueDecision ==
    /\ pc = "dispatch"
       => response.stop_reason = "tool_use" /\ round_number < max_rounds
    /\ (Done /\ exitAt = "line152")
       => /\ ~(response.stop_reason = "tool_use" /\ round_number < max_rounds)
          /\ outcome = "returned"
          /\ result \in TextsIn(response.content)
          /\ NumCalls = round_number
          /\ \A i \in 1..Len(execLog) : execLog[i].round < round_number
    /\ (Done /\ NumCalls = 1 /\ callLog[1].stop = "end_turn")
       => outcome = "returned" /\ execLog = <<>>

\* C7: if a tool raises during the dispatch of a round, the run does not
\* raise: it returns without a further model call, the round is not retried
\* and the failing tool has been invoked once.
C7_DispatchFailureCaught ==
    (Done /\ LastExecRaised)
    => /\ outcome = "returned"
       /\ NumCalls = execLog[Len(execLog)].round
       /\ Cardinality({i \in 1..Len(execLog) :
                          execLog[i].id = execLog[Len(execLog)].id}) = 1

\* C8: on a dispatch failure the value returned is the last text of the
\* failing response if it has a text block, whatever its position, and a
\* non-empty message otherwise; it is never taken from a tool-use block.
C8_FailureValue ==
    (Done /\ LastExecRaised)
    => /\ outcome = "returned"
       /\ result # <<>>
       /\ TextIndices(response.content) # {}
          => result = LastTextIn(response.content)

\* C9: after reset_sources, one run and get_last_sources, the list returned
\* is as long as the number of passages formatted by the last tool
\* execution of the run, and empty if no tool was executed.
C9_ProvenanceLength ==
    qphase = "got"
    => Len(got.list) = (IF lastFormatted = <<>> THEN 0 ELSE lastFormatted[1])

\* C10: get_last_sources returns the provenance of the tool that executed
\* most recently, whatever the order of registration.
C10_MostRecentProvenance ==
    (got.valid /\ last_sources[SEARCH] # <<>> /\ last_sources[OUTLINE] # <<>>)
    => got.list = last_sources[lastWriter]

\* C11: immediately after reset_sources, get_last_sources returns the empty
\* list, whatever was executed before the reset; and a query that was reset
\* and executed no tool gets the empty list, never the provenance of an
\* earlier query.
C11_ResetEmpties ==
    /\ qphase \in {"reset", "cleared"} => GetLastSourcesValue = <<>>
    /\ (qphase = "got" /\ lastFormatted = <<>>) => got.list = <<>>

\* a reset has just cleared provenance that earlier executions had recorded
C11_Witness ==
    qphase = "cleared" /\ Len(tools) = 2 /\ GetLastSourcesValue = <<>>

\* the correlation ids of the tool-use blocks of a content, in emitted order
RECURSIVE ToolUseIds(_)
ToolUseIds(content) ==
    IF content = <<>> THEN <<>>
    ELSE (IF content[1].type = "tool_use" THEN <<content[1].id>> ELSE <<>>)
         \o ToolUseIds(Tail(content))
ResultIds(results) == [i \in 1..Len(results) |-> results[i].tool_use_id]
\* the correlation ids of the executions of round r, in execution order
RECURSIVE ExecIdsOfRound(_, _)
ExecIdsOfRound(log, r) ==
    IF log = <<>> THEN <<>>
    ELSE (IF log[1].round = r THEN <<log[1].id>> ELSE <<>>)
         \o ExecIdsOfRound(Tail(log), r)
IsPrefix(a, b) == Len(a) <= Len(b) /\ SubSeq(b, 1, Len(a)) = a

\* C12: within a round the tool-use blocks are dispatched in the order the
\* model emitted them, each exactly once; the collected results are in the
\* same order, the i-th result carrying the id of the i-th tool-use block,
\* and blocks that are no tool-use blocks produce no result.
C12_DispatchInOrder ==
    /\ pc = "dispatch"
       => LET seen == ToolUseIds(SubSeq(response.content, 1, blockIdx - 1))
          IN  /\ ResultIds(tool_results) = seen
              /\ ExecIdsOfRound(execLog, round_number) = seen
    /\ (Done /\ DispatchFailed /\ tool_manager)
       => IsPrefix(ExecIdsOfRound(execLog, round_number),
                   ToolUseIds(response.content))
    /\ \A i \in 1..(Len(messages) - 1) :
           (pc # "generated" /\ messages[i].role = "assistant")
           => ResultIds(messages[i + 1].content) = ToolUseIds(messages[i].content)

\* a round has dispatched two tool-use blocks of one response
C12_Witness ==
    /\ pc = "dispatch" /\ blockIdx > Len(response.content)
    /\ Len(tool_results) = 2

\* C13: a round that was dispatched extends the message history by exactly
\* two turns: an assistant turn with the content of the response, then one
\* user turn with all the tool results of the round; the history given to a
\* model call has the history of every earlier call of the run as a prefix.
C13_HistoryGrows ==
    /\ \A i, j \in 1..Len(callLog) :
           i < j => IsPrefix(callLog[i].messages, callLog[j].messages)
    /\ \A i \in 1..Len(callLog) : IsPrefix(callLog[i].messages, messages)
    /\ (pc \in {"round", "final"} /\ round_number > 1)
       => LET n == Len(messages) IN
          /\ n = Len(callLog[Len(callLog)].messages) + 2
          /\ messages[n - 1] = [role |-> "assistant", content |-> response.content]
          /\ messages[n] = [role |-> "user", content |-> tool_results]
          /\ ResultIds(tool_results) = ToolUseIds(response.content)
          /\ tool_results # <<>>

\* the second model call of a run was given the query, the assistant turn
\* and the user turn of round 1
C13_Witness ==
    /\ Done /\ NumCalls = 2
    /\ Len(callLog[1].messages) = 1 /\ Len(callLog[2].messages) = 3

\* C14: with max_rounds = 2, a tool request in round 1 and an answer without
\* tool request in round 2: exactly 2 model calls, each tool call of round 1
\* executed exactly once, the text of round 2 returned, and no further call
\* without tools.
C14_OneSearchRound ==
    (Done /\ max_rounds = 2 /\ NumCalls >= 2
          /\ callLog[1].stop = "tool_use" /\ callLog[2].stop = "end_turn")
    => /\ NumCalls = 2
       /\ \A i \in 1..NumCalls : callLog[i].round = i
       /\ outcome = "returned"
       /\ response.stop_reason = "end_turn"
       /\ result = response.content[1].text
       /\ ExecIdsOfRound(execLog, 1) = ToolUseIds(messages[2].content)
       /\ Len(execLog) = Len(ToolUseIds(messages[2].content))

\* such a run, with two tool calls in round 1, has ended
C14_Witness ==
    /\ Done /\ max_rounds = 2 /\ NumCalls = 2
    /\ callLog[1].stop = "tool_use" /\ callLog[2].stop = "end_turn"
    /\ Len(execLog) = 2 /\ outcome = "returned"

\* C15: a failure of the model call is not caught, in generate_response and
\* in every round of generate_response_with_sequential_tools: the error
\* reaches the caller, no answer is returned, the failing call is the last
\* call and no tool is executed after it.
C15_ModelFailurePropagates ==
    (pc \in {"done", "generated"} /\ callLog # <<>>)
    => /\ \A i \in 1..(Len(callLog) - 1) : callLog[i].stop # None
       /\ callLog[Len(callLog)].stop = None
          => /\ outcome = "APIError"
             /\ result = <<>>
             /\ \A i \in 1..Len(execLog) : execLog[i].calls < Len(callLog)

\* the model call of round 2 failed after the tools of round 1 were executed
C15_Witness ==
    /\ Done /\ ApiFailed /\ NumCalls = 2 /\ execLog # <<>>
    /\ exitAt = "line214"

SearchCalled == toolCall.tool = SEARCH
OutlineCalled == toolCall.tool = OUTLINE
\* the label of a passage: its course, and its lesson if it has one
LabelOf(passage) ==
    IF passage.lesson_number # <<>>
    THEN <<passage.course_title, " - Lesson ",
           ToString(passage.lesson_number[1])>>
    ELSE <<passage.course_title>>

\* C16: when the result of the backend search carries an error, execute
\* returns exactly that error string, never the "No relevant content found"
\* message although the result has no documents: the error outcome differs
\* from the no-match outcome.
C16_ErrorVerbatim ==
    (SearchCalled /\ toolCall.reply.error # None)
    => /\ toolCall.text = <<toolCall.reply.error>>
       /\ toolCall.text[1] # "No relevant content found"

\* a search whose index query failed has returned
C16_Witness ==
    /\ SearchCalled /\ toolCall.reply.error = "Search error"
    /\ toolCall.reply.docs = <<>> /\ toolCall.searches = 1

\* C17: a search with zero matches and no error returns "No relevant content
\* found" followed by the filters that were supplied and no others: the
\* course name iff course_name was given, the lesson number iff
\* lesson_number was given, lesson 0 included.
C17_NoMatchEchoesFilters ==
    (SearchCalled /\ toolCall.reply.error = None /\ toolCall.reply.docs = <<>>)
    => toolCall.text =
          <<"No relevant content found">>
          \o (IF toolCall.kw.course_name # None
              THEN <<" in course '", toolCall.kw.course_name, "'">> ELSE <<>>)
          \o (IF toolCall.kw.lesson_number # <<>>
              THEN <<" in lesson ", ToString(toolCall.kw.lesson_number[1])>>
              ELSE <<>>)
          \o <<".">>

\* C18: after a search that returns n >= 1 passages the provenance of the
\* search tool is a list of exactly n source references in ranked order,
\* the i-th labelled "<course> - Lesson <n>" if passage i has a lesson
\* number and "<course>" otherwise; it replaces what the tool held before.
C18_SourcesPerPassage ==
    (SearchCalled /\ toolCall.reply.error = None /\ toolCall.reply.docs # <<>>)
    => /\ Len(last_sources[SEARCH]) = Len(toolCall.reply.docs)
       /\ \A i \in 1..Len(toolCall.reply.docs) :
              last_sources[SEARCH][i].text = LabelOf(toolCall.reply.docs[i])

\* a search of two different passages has replaced earlier provenance
C18_Witness ==
    /\ SearchCalled /\ toolCall.before >= 1
    /\ Len(toolCall.reply.docs) = 2
    /\ toolCall.reply.docs[1] # toolCall.reply.docs[2]

\* C19: a search with a course_name that matches no catalog entry returns
\* the "No course found" message and issues no query against the index.
C19_NoCourseNoSearch ==
    (SearchCalled /\ toolCall.kw.course_name # None /\ toolCall.resolved = None)
    => /\ toolCall.text = <<NoCourseFound(toolCall.kw.course_name)>>
       /\ toolCall.searches = 0

\* a search for a course name that resolved to nothing has returned
C19_Witness ==
    /\ SearchCalled /\ toolCall.kw.course_name = "X"
    /\ toolCall.resolved = None /\ toolCall.searches = 0

\* C20: the outline tool has three outcomes: a name that resolves to nothing
\* gives "No course found matching ..." and the metadata is not read; a
\* resolved title that no metadata record has gives "Course metadata not
\* found ..."; otherwise the record with the resolved title is rendered,
\* never a course with another title.
C20_OutlineOutcomes ==
    OutlineCalled
    => LET titled == {i \in 1..Len(toolCall.metadata) :
                         toolCall.metadata[i].title = toolCall.resolved}
       IN  IF toolCall.resolved = None
           THEN /\ toolCall.text = <<"No course found matching '",
                                     toolCall.kw.course_name, "'">>
                /\ toolCall.reads = 0
           ELSE IF titled = {}
           THEN toolCall.text = <<"Course metadata not found for '",
                                  toolCall.resolved, "'">>
           ELSE /\ SubSeq(toolCall.text, 1, 3) = <<"**", toolCall.resolved, "**">>
                /\ Len(last_sources[OUTLINE]) = 1
                /\ last_sources[OUTLINE][1].text = <<toolCall.resolved>>

\* the outline of a course found behind another course's record is rendered
C20_Witness ==
    /\ OutlineCalled /\ toolCall.resolved = "A"
    /\ toolCall.metadata = <<CourseB, CourseA>>
    /\ toolCall.text[2] = "A"

\* the rounds in which a tool was executed
ExecRounds == {execLog[i].round : i \in 1..Len(execLog)}

AtUnknownTool ==
    /\ pc = "dispatch" /\ blockIdx <= Len(response.content)
    /\ response.content[blockIdx].type = "tool_use"
    /\ ~Registered(response.content[blockIdx].name)

\* C23: execute_tool with a name that is not registered returns the string
\* "Tool '<name>' not found" and does not raise (the dispatch goes on with
\* that string as the result of the block); no registered tool is executed
\* and the provenance of every tool is as it was.
C23_UnknownToolNotFound ==
    [][AtUnknownTool
       => LET block == response.content[blockIdx] IN
          /\ tool_results' =
                 Append(tool_results,
                        [type |-> "tool_result", tool_use_id |-> block.id,
                         content |-> <<"Tool '", block.name, "' not found">>])
          /\ pc' = "dispatch" /\ blockIdx' = blockIdx + 1
          /\ outcome' = "none"
          /\ Len(execLog') = Len(execLog) + 1
          /\ ~execLog'[Len(execLog')].ran /\ ~execLog'[Len(execLog')].raised
          /\ last_sources' = last_sources
          /\ lastWriter' = lastWriter /\ lastFormatted' = lastFormatted]_vars

\* the outline tool was asked for while the search tool alone is registered
\* and holds provenance: the block got the "not found" result
C23_Witness ==
    /\ pc = "dispatch" /\ tools = <<SEARCH>> /\ last_sources[SEARCH] # <<>>
    /\ tool_results # <<>>
    /\ tool_results[Len(tool_results)].content =
           <<"Tool '", OUTLINE, "' not found">>
    /\ ~execLog[Len(execLog)].ran

Generated == pc = "generated"

\* C26: in generate_response, when the first response requests tools and a
\* tool manager is given, every tool-use block is executed once in emitted
\* order, then one follow-up call is made without tools and its text is
\* returned: 2 model calls, also when the follow-up requests a tool again.
C26_SingleRoundFollowUp ==
    (Generated /\ tool_manager /\ callLog[1].stop = "tool_use"
               /\ outcome \notin {"APIError", "TypeError"})
    => /\ NumCalls = 2
       /\ callLog[1].tools = toolset /\ ~callLog[2].tools
       /\ ExecIdsOfRound(execLog, 0) = ToolUseIds(messages[2].content)
       /\ \A i \in 1..Len(execLog) : execLog[i].calls = 1
       /\ outcome = "returned"
       /\ result \in TextsIn(response.content)

\* the latest outline execution found the record of the resolved title
OutlineRendered ==
    /\ OutlineCalled /\ toolCall.resolved # None
    /\ \E i \in 1..Len(toolCall.metadata) :
           toolCall.metadata[i].title = toolCall.resolved
\* the record it rendered: the first one with the resolved title
RenderedCourse ==
    toolCall.metadata[CHOOSE i \in 1..Len(toolCall.metadata) :
        /\ toolCall.metadata[i].title = toolCall.resolved
        /\ \A j \in 1..(i - 1) : toolCall.metadata[j].title # toolCall.resolved]

\* C21: a successful outline execution leaves the provenance of the outline
\* tool equal to a list of exactly one source reference, its text the title
\* of the course and its url the course link (None if the course has none),
\* whatever the tool held before.
C21_OutlineOneSource ==
    OutlineRendered
    => last_sources[OUTLINE] =
          <<[text |-> <<RenderedCourse.title>>,
             url |-> RenderedCourse.course_link]>>

\* the outline of the course without link was rendered by a tool that held
\* the source of an earlier outline
C21_Witness ==
    /\ OutlineRendered /\ toolCall.before = 1
    /\ RenderedCourse.course_link = None
    /\ last_sources[OUTLINE][1].url = None

\* C22: the outline lists every lesson of the record exactly once, as
\* "<number>. <title>", in ascending order of lesson number, whatever the
\* order of the lessons in the record: the text ends with one line for each
\* lesson, right after the "Lessons (n total)" header.
C22_LessonsAscending ==
    (OutlineRendered /\ RenderedCourse.lessons # <<>>)
    => LET lessons == RenderedCourse.lessons
           n == Len(lessons)
           text == toolCall.text
           line(i) == SubSeq(text, Len(text) - 4 * (n - i) - 3,
                                   Len(text) - 4 * (n - i))
       IN  /\ Len(text) > 4 * n
           /\ text[Len(text) - 4 * n] = " total):**"
           /\ text[Len(text) - 4 * n - 1] = ToString(n)
           /\ \E p \in Permutations(1..n) :
                 /\ \A i \in 1..n :
                        line(i) = <<"\n", ToString(lessons[p[i]].lesson_number),
                                    ". ", lessons[p[i]].lesson_title>>
                 /\ \A i, j \in 1..n :
                        i < j => lessons[p[i]].lesson_number
                                 < lessons[p[j]].lesson_number

\* the outline of a record with MaxLessons lessons, the first of them not
\* the one with the smallest number, was rendered
C22_Witness ==
    /\ OutlineRendered /\ Len(RenderedCourse.lessons) = MaxLessons
    /\ RenderedCourse.lessons[1].lesson_number
          > RenderedCourse.lessons[2].lesson_number
    /\ toolCall.text[Len(toolCall.text)] = RenderedCourse.lessons[1].lesson_title

\* C28: every CourseSearchTool.execute call issues exactly one backend
\* search and passes the query, the course_name and the lesson_number as it
\* received them, absent filters as absent, on every path: error, no match
\* and passages found.
C28_OneSearchAsReceived ==
    SearchCalled
    => /\ Len(toolCall.passed) = 1
       /\ toolCall.passed[1].query = toolCall.kw.query
       /\ toolCall.passed[1].course_name = toolCall.kw.course_name
       /\ toolCall.passed[1].lesson_number = toolCall.kw.lesson_number

\* a search for lesson 0 of a course that resolved to nothing has returned
\* the error of the store
C28_Witness ==
    /\ SearchCalled /\ toolCall.kw.lesson_number = <<0>>
    /\ toolCall.kw.course_name = "X" /\ toolCall.reply.error # None
    /\ Len(toolCall.passed) = 1 /\ toolCall.passed[1].lesson_number = <<0>>

\* C25: an empty search result that is due to a result-count limit of zero
\* is reported as a configuration error: what the search tool returns for it
\* differs from the "No relevant content found" message of a search that
\* has no match.
C25_ZeroLimitFlagged ==
    (SearchCalled /\ toolCall.limit = 0 /\ toolCall.searches = 1
                  /\ toolCall.reply.error = None)
    => toolCall.text[1] # "No relevant content found"

\* the names given to register_tool so far
RegisteredNames == {NameOf(regLog[i]) : i \in 1..Len(regLog)}
\* the tool of the last registration under a name
LastRegistered(name) ==
    regLog[CHOOSE i \in 1..Len(regLog) :
              /\ NameOf(regLog[i]) = name
              /\ \A j \in (i + 1)..Len(regLog) : NameOf(regLog[j]) # name]

\* C24: after any sequence of register_tool calls the registry maps each
\* registered name to the tool of the last registration under that name (the
\* tool registered earlier under it is no longer there), it has no other
\* key, and get_tool_definitions returns exactly one definition for each
\* registered name.
C24_LastRegistrationWins ==
    /\ \A name \in ToolNames :
           IF name \in RegisteredNames
           THEN Registered(name) /\ instances[name] = LastRegistered(name)
           ELSE ~Registered(name) /\ instances[name] = None
    /\ Len(tools) = Cardinality(RegisteredNames)
    /\ definitions.valid
       => /\ Len(definitions.list) = Cardinality(RegisteredNames)
          /\ \A name \in RegisteredNames :
                 Cardinality({i \in 1..Len(definitions.list) :
                                 definitions.list[i].name = name}) = 1

\* a second search tool was registered after a search tool and an outline
\* tool, and the definitions were asked for
C24_Witness ==
    /\ regLog = <<"search1", "outline1", "search2">>
    /\ instances[SEARCH] = "search2" /\ instances[OUTLINE] = "outline1"
    /\ definitions.valid /\ Len(definitions.list) = 2

\* a string has the pieces sub one after the other
Contains(str, sub) ==
    \E i \in 1..(Len(str) - Len(sub) + 1) :
        SubSeq(str, i, i + Len(sub) - 1) = sub

\* C27: the system prompt of round r of max_rounds contains "Current Round:
\* r of max_rounds"; for round 1 of 2 it contains "first opportunity" and
\* announces Round 2; for round 2 of 2 it contains "final round" and
\* "complete final answer".
C27_RoundAwarePrompt ==
    \A i \in 1..Len(callLog) :
        callLog[i].round >= 1
        => LET sys == callLog[i].system
               r == callLog[i].round
           IN  /\ Contains(sys, <<"Current Round: ", ToString(r), " of ",
                                  ToString(max_rounds)>>)
               /\ (r = 1 /\ max_rounds = 2)
                  => /\ Contains(sys, <<"first opportunity">>)
                     /\ Contains(sys, <<"Round ", "2">>)
               /\ (r = 2 /\ max_rounds = 2)
                  => /\ Contains(sys, <<"final round">>)
                     /\ Contains(sys, <<"complete final answer">>)

\* a run of two rounds has made the model call of round 2 with the prompt
\* of the final round, after the call of round 1 with the prompt of the
\* first opportunity
C27_Witness ==
    /\ Done /\ max_rounds = 2 /\ NumCalls = 2
    /\ callLog[1].round = 1 /\ Contains(callLog[1].system, <<"Round ", "2">>)
    /\ callLog[2].round = 2 /\ Contains(callLog[2].system, <<"final round">>)

\* the block "Previous conversation" with the history h
HistoryBlock(h) == <<"\n\nPrevious conversation:\n", h>>

\* C29: when a conversation history is given, the system prompt of every
\* model call of the run, of every round and of the call without tools,
\* contains the block "Previous conversation" with that history; when none
\* is given, the system prompt of no call contains that block.
C29_HistoryInEveryCall ==
    \A i \in 1..Len(callLog) :
        IF conversation_history # None
        THEN Contains(callLog[i].system, HistoryBlock(conversation_history))
        ELSE ~Contains(callLog[i].system,
                       <<"\n\nPrevious conversation:\n">>)

\* a run with a history has made the calls of two rounds
C29_Witness ==
    /\ Done /\ conversation_history # None /\ max_rounds = 2 /\ NumCalls = 2
    /\ callLog[2].round = 2 /\ execLog # <<>>

\* the latest execution formatted no passage and no outline
FormattedNothing ==
    \/ /\ SearchCalled
       /\ toolCall.reply.error # None \/ toolCall.reply.docs = <<>>
    \/ OutlineCalled /\ ~OutlineRendered

RaisedAfterSuccess ==
    /\ Len(execLog) >= 2
    /\ execLog[Len(execLog)].raised
    /\ execLog[Len(execLog) - 1].round = execLog[Len(execLog)].round
    /\ ~execLog[Len(execLog) - 1].raised

\* C32: when the k-th tool call of a round raises after k-1 calls of the
\* round succeeded, none of the k-1 results is appended to the message
\* history or sent to the model, the tool calls after the k-th are not
\* executed, and get_last_sources returns the provenance that the
\* successful calls wrote.
C32_PartialRoundDiscarded ==
    (Done /\ RaisedAfterSuccess)
    => /\ messages[Len(messages)] =
              [role |-> "assistant", content |-> response.content]
       /\ Len(messages) = Len(callLog[NumCalls].messages) + 1
       /\ NumCalls = round_number
       /\ IsPrefix(ExecIdsOfRound(execLog, round_number),
                   ToolUseIds(response.content))
       /\ (execLog[Len(execLog) - 1].ran /\ lastFormatted # <<0>>)
          => /\ GetLastSourcesValue = last_sources[lastWriter]
             /\ Len(GetLastSourcesValue) = lastFormatted[1]

\* an execution of the run raised
SomeExecRaised == \E i \in 1..Len(execLog) : execLog[i].raised

\* C33: in generate_response a tool that raises during the dispatch is not
\* caught: the error of the tool reaches the caller, no text is returned and
\* the follow-up model call is not made (1 model call); in
\* generate_response_with_sequential_tools the error of the tool never
\* reaches the caller.
C33_SingleRoundToolErrorPropagates ==
    /\ (Generated /\ SomeExecRaised)
       => /\ outcome = "TypeError" /\ result = <<>>
          /\ exitAt = "line343"
          /\ NumCalls = 1
          /\ execLog[Len(execLog)].raised
    /\ (Generated /\ outcome = "TypeError") => SomeExecRaised
    /\ (Done /\ SomeExecRaised) => outcome # "TypeError"

\* generate_response has ended with the error of the second tool of its
\* response, after the first tool was executed
C33_Witness ==
    /\ Generated /\ tool_manager /\ Len(execLog) = 2
    /\ ~execLog[1].raised /\ execLog[2].raised
    /\ outcome = "TypeError" /\ NumCalls = 1

\* the run has ended after a response of a round before the last that
\* requests a tool and for which no tool result can be produced
NoResultPossible ==
    /\ Done /\ NumCalls >= 1
    /\ callLog[NumCalls].round = round_number
    /\ callLog[NumCalls].stop = "tool_use"
    /\ round_number < max_rounds
    /\ ~tool_manager \/ ToolUseIds(response.content) = <<>>

\* C34: in generate_response_with_sequential_tools a response of a round
\* r < max_rounds that requests a tool, when no tool manager is given or the
\* response has no tool-use block, is handled like a dispatch failure: the
\* run returns the text of the first content block of that response, with
\* no tool executed and no further model call.
C34_NoResultLikeFailure ==
    NoResultPossible
    => /\ exitAt = "line163"
       /\ outcome = "returned"
       /\ result = response.content[1].text
       /\ NumCalls = round_number
       /\ ExecIdsOfRound(execLog, round_number) = <<>>

\* the run in hand is one of generate_response_with_sequential_tools
SequentialRun == pc \in {"round", "dispatch", "final", "done"}

\* C35: at every model call of a run of generate_response_with_sequential_
\* tools the message history starts with the user query, alternates user
\* and assistant turns and ends with a user turn; at the call of round r it
\* has exactly 2 * (r - 1) + 1 turns.
C35_HistoryAlternates ==
    SequentialRun
    => \A i \in 1..Len(callLog) :
          LET msgs == callLog[i].messages
              r == callLog[i].round
          IN  /\ Len(msgs) >= 1
              /\ msgs[1] = [role |-> "user", content |-> Query]
              /\ \A j \in 1..Len(msgs) :
                     msgs[j].role = (IF j % 2 = 1 THEN "user" ELSE "assistant")
              /\ msgs[Len(msgs)].role = "user"
              /\ r >= 1 => Len(msgs) = 2 * (r - 1) + 1

\* the model call of round 2 was given the query, the assistant turn of
\* round 1 and one user turn with the two results of round 1
C35_Witness ==
    /\ Done /\ NumCalls = 2 /\ callLog[2].round = 2
    /\ Len(callLog[2].messages) = 3
    /\ Len(callLog[2].messages[3].content) = 2

\* the executions of the run that found no tool under the name of the block
NotFoundExecs == {i \in 1..Len(execLog) : ~execLog[i].ran /\ ~execLog[i].raised}
NotFoundResult(e) ==
    [type |-> "tool_result", tool_use_id |-> e.id,
     content |-> <<"Tool '", e.name, "' not found">>]
InResults(results, x) == \E k \in 1..Len(results) : results[k] = x
RaisedInRound(r) ==
    \E i \in 1..Len(execLog) : execLog[i].round = r /\ execLog[i].raised

\* C36: in generate_response_with_sequential_tools a tool-use block that
\* names a tool that is not registered is no dispatch failure: the string
\* "Tool '<name>' not found" is a tool result with the id of the block, the
\* blocks after it are executed, and unless one of them raises the run goes
\* on to the model call of the next round, which is given that result.
C36_UnknownToolNoFailure ==
    SequentialRun
    => \A i \in NotFoundExecs :
          LET e == execLog[i] IN
          /\ (pc = "dispatch" /\ e.round = round_number)
             => /\ InResults(tool_results, NotFoundResult(e))
                /\ blockIdx > Len(response.content)
                   => ExecIdsOfRound(execLog, round_number)
                         = ToolUseIds(response.content)
          /\ (Done /\ e.round = round_number)
             => /\ RaisedInRound(e.round)
                /\ IsPrefix(ExecIdsOfRound(execLog, round_number),
                            ToolUseIds(response.content))
          /\ e.round < round_number
             => /\ ~RaisedInRound(e.round)
                /\ InResults(messages[2 * e.round + 1].content, NotFoundResult(e))
                /\ pc # "round"
                   => /\ NumCalls > e.round
                      /\ callLog[e.round + 1].round = e.round + 1
                      /\ callLog[e.round + 1].messages[2 * e.round + 1]
                            = messages[2 * e.round + 1]

\* with the search tool alone registered, a round asked for the outline
\* tool and then for a search: the search was executed after the "not
\* found" result, and the run went on to the model call of round 2
C36_Witness ==
    /\ Done /\ tools = <<SEARCH>> /\ NumCalls = 2 /\ Len(execLog) = 2
    /\ ~execLog[1].ran /\ execLog[2].ran /\ ~execLog[2].raised
    /\ callLog[2].round = 2
    /\ InResults(callLog[2].messages[3].content, NotFoundResult(execLog[1]))

\* the texts between the brackets of the headers of a formatted text, in
\* order (open: inside a header; cur: the pieces of that header so far)
RECURSIVE BracketsFrom(_, _, _)
BracketsFrom(text, open, cur) ==
    IF text = <<>> THEN <<>>
    ELSE IF ~open
    THEN BracketsFrom(Tail(text), text[1] = "[", <<>>)
    ELSE IF text[1] = "]"
    THEN <<cur>> \o BracketsFrom(Tail(text), FALSE, <<>>)
    ELSE BracketsFrom(Tail(text), TRUE, Append(cur, text[1]))
Brackets(text) == BracketsFrom(text, FALSE, <<>>)

\* the latest search formatted passages
PassagesFormatted ==
    SearchCalled /\ toolCall.reply.error = None /\ toolCall.reply.docs # <<>>
WithLesson(docs) == {i \in 1..Len(docs) : docs[i].lesson_number # <<>>}

\* C37: for every passage the search tool formats, the label of its source
\* reference equals the text between the brackets of its header in the
\* returned text, both with " - Lesson <n>" exactly when the passage has a
\* lesson number, lesson 0 included; a lesson link is looked up only for
\* the passages that have a lesson number, and the url of the others is
\* absent.
C37_LabelIsHeader ==
    PassagesFormatted
    => LET docs == toolCall.reply.docs
           heads == Brackets(toolCall.text)
           srcs == last_sources[SEARCH]
       IN  /\ Len(heads) = Len(docs) /\ Len(srcs) = Len(docs)
           /\ \A i \in 1..Len(docs) :
                  /\ srcs[i].text = heads[i]
                  /\ IF docs[i].lesson_number # <<>>
                     THEN /\ Len(heads[i]) = 3
                          /\ SubSeq(heads[i], 2, 3) =
                                <<" - Lesson ", ToString(docs[i].lesson_number[1])>>
                          /\ srcs[i].url =
                                toolCall.reply.links[docs[i].lesson_number[1]]
                     ELSE /\ Len(heads[i]) = 1
                          /\ srcs[i].url = None
           /\ Len(toolCall.lookups) = Cardinality(WithLesson(docs))
           /\ \A k \in 1..Len(toolCall.lookups) :
                  \E i \in WithLesson(docs) :
                     /\ toolCall.lookups[k].course_title = docs[i].course_title
                     /\ toolCall.lookups[k].lesson_num = docs[i].lesson_number[1]

\* a search has formatted the passage of lesson 0 and the passage without
\* lesson number
C37_Witness ==
    /\ PassagesFormatted
    /\ toolCall.reply.docs = <<PassageLessonZero, PassageNoLesson>>
    /\ last_sources[SEARCH][1].text = <<"B", " - Lesson ", "0">>
    /\ Len(toolCall.lookups) = 1

\* the step is a register_tool call on a tool without a name
NamelessRegistration ==
    regOutcome' # regOutcome /\ regOutcome'.tool \in NamelessTools

\* C38: register_tool on a tool whose definition has no name, or the empty
\* string as its name, raises an error and leaves the registry as it was:
\* the registered names and the tool under each name are the same as before
\* the call.
C38_NamelessRejected ==
    [][NamelessRegistration
       => /\ regOutcome'.raised
          /\ tools' = tools
          /\ instances' = instances]_vars

\* with the second search tool registered over the first and an outline
\* tool registered, a tool with the empty name was turned down
C38_Witness ==
    /\ regOutcome = [tool |-> "emptyname", raised |-> TRUE]
    /\ tools = <<SEARCH, OUTLINE>>
    /\ instances[SEARCH] = "search2" /\ instances[OUTLINE] = "outline1"

====
